---- MODULE Spec2Model ----
(***************************************************************************)
(* Model of the 4-view body measurement pipeline                           *)
(* (body_measurement_circumference_only.py): the per-view capture loop of  *)
(* auto_capture_view, the session logic of run_full_capture, and the pure  *)
(* functions assess_pose_quality, _average_landmarks, triangulate_4view    *)
(* and calculate_circumference_only.                                       *)
(*                                                                         *)
(* Conventions.                                                            *)
(*  - Python None for a landmark is the empty tuple None; a present        *)
(*    landmark is a record (the dict of the source).                       *)
(*  - An optional list (landmarks_2d, a view passed to triangulate_4view)  *)
(*    is NoList (Python None) or Some(list).                               *)
(*  - A Python list index i is position i + 1 of the sequence (At).        *)
(*  - Floats are exact rationals [n, d] in lowest terms; "visibility" is   *)
(*    kept in hundredths (0.90 is the rational 90), a rounded value of     *)
(*    round(v, 2) is kept as the integer number of hundredths.             *)
(***************************************************************************)
EXTENDS Integers, Sequences, FiniteSets, TLC

VARIABLES
    \* ---- run_full_capture / auto_capture_view (the session) ----
    pc,                     \* "idle" | "loop" | "returned" | "done"
    user_height_cm,         \* self.user_height_cm
    view_idx,               \* position in self.views of the view being captured
    frame_count,            \* local of auto_capture_view
    valid_landmarks_list,   \* local of auto_capture_view: the accepted frames,
                            \* each a reference to a frame, named by its kind
    pose_stable_count,      \* local of auto_capture_view
    auto_capture_started,   \* local of auto_capture_view
    capture_complete,       \* self.capture_complete
    view_result,            \* what the call of auto_capture_view returned, NoReturn
                            \* while a call is in progress
    landmarks_dict,         \* local of run_full_capture
    measurements,           \* self.measurements
    saved,                  \* the records written by _save_measurements
    result,                 \* return value of run_full_capture
    \* ---- observations of the input stream (history, not program state) ----
    obs,
    \* ---- inputs and outputs of the pure functions ----
    avg_in, avg_out,
    tri_in, tri_out,
    circ_in, circ_out,
    pose_in, pose_out,
    val_in, val_out

vars == <<pc, user_height_cm, view_idx, frame_count, valid_landmarks_list,
          pose_stable_count, auto_capture_started, capture_complete,
          view_result, landmarks_dict, measurements, saved, result, obs,
          avg_in, avg_out, tri_in, tri_out, circ_in, circ_out,
          pose_in, pose_out, val_in, val_out>>

sessionVars == <<pc, user_height_cm, view_idx, frame_count, valid_landmarks_list,
                 pose_stable_count, auto_capture_started, capture_complete,
                 view_result, landmarks_dict, measurements, saved, result, obs>>

\* the session's state but for the position in it
sessionState == <<user_height_cm, view_idx, frame_count, valid_landmarks_list,
                  pose_stable_count, auto_capture_started, capture_complete,
                  view_result, landmarks_dict, measurements, saved, result, obs>>

avgVars == <<avg_in, avg_out>>
triVars == <<tri_in, tri_out>>
circVars == <<circ_in, circ_out>>
poseVars == <<pose_in, pose_out>>
valVars == <<val_in, val_out>>
pureVars == <<avgVars, triVars, circVars, poseVars, valVars>>

(***************************************************************************)
(* Exact rational arithmetic                                               *)
(***************************************************************************)
Abs(i) == IF i < 0 THEN -i ELSE i

RECURSIVE GCD(_, _)
GCD(a, b) == IF b = 0 THEN a ELSE GCD(b, a % b)

Rat(n, d) ==
    LET g == GCD(Abs(n), Abs(d))
        s == IF d < 0 THEN -1 ELSE 1
    IN  [n |-> s * (n \div g), d |-> s * (d \div g)]

FromInt(i) == [n |-> i, d |-> 1]
Zero == FromInt(0)
One == FromInt(1)

RAdd(a, b) == Rat(a.n * b.d + b.n * a.d, a.d * b.d)
RSub(a, b) == Rat(a.n * b.d - b.n * a.d, a.d * b.d)
RMul(a, b) == Rat(a.n * b.n, a.d * b.d)
RDiv(a, b) == Rat(a.n * b.d, a.d * b.n)
RLess(a, b) == a.n * b.d < b.n * a.d
RSq(a) == RMul(a, a)
RAbs(a) == [n |-> Abs(a.n), d |-> a.d]

\* the sum of s[lo..hi], by halves (the recursion stays shallow); integers
\* are added without passing through Rat
RECURSIVE RSumRange(_, _, _)
RSumRange(s, lo, hi) ==
    IF lo > hi THEN Zero
    ELSE IF lo = hi THEN s[lo]
    ELSE LET mid == (lo + hi) \div 2
             a == RSumRange(s, lo, mid)
             b == RSumRange(s, mid + 1, hi)
         IN  IF a.d = 1 /\ b.d = 1 THEN FromInt(a.n + b.n) ELSE RAdd(a, b)
RSum(s) == RSumRange(s, 1, Len(s))

\* np.mean of a non-empty list
Mean(s) == RDiv(RSum(s), FromInt(Len(s)))

\* the integer square root: the largest r with r * r <= n
\* (searched by bisection between lo and hi, lo * lo <= n < hi * hi)
RECURSIVE ISqrtIn(_, _, _)
ISqrtIn(n, lo, hi) ==
    IF hi - lo <= 1 THEN lo
    ELSE LET mid == (lo + hi) \div 2
         IN  IF mid * mid <= n THEN ISqrtIn(n, mid, hi) ELSE ISqrtIn(n, lo, mid)
ISqrt(n) == ISqrtIn(n, 0, IF n + 1 < 46341 THEN n + 1 ELSE 46341)
IsSquare(n) == ISqrt(n) * ISqrt(n) = n

\* np.sqrt, exact on the rationals whose numerator and denominator are
\* squares (the only ones the model's inputs produce)
Sqrt(a) == Rat(ISqrt(a.n), ISqrt(a.d))

\* round(v, 2) for v >= 0, as the number of hundredths; a tie goes to the
\* even neighbour, as Python's round does on an exactly representable tie
Round2(a) ==
    LET num == a.n * 100
        q == num \div a.d
        r == num % a.d
    IN  IF 2 * r < a.d THEN q
        ELSE IF 2 * r > a.d THEN q + 1
        ELSE IF q % 2 = 0 THEN q ELSE q + 1

(***************************************************************************)
(* Landmarks                                                               *)
(***************************************************************************)
None == <<>>
NoList == <<>>
Some(v) == <<v>>
Get(o) == o[1]

\* Python truthiness of an optional list: None and [] are falsy
Truthy(o) == o # NoList /\ Get(o) # <<>>

\* list[idx]
At(list, idx) == list[idx + 1]

Present(l) == l # None
Column(s, f) == [i \in 1..Len(s) |-> s[i][f]]


(***************************************************************************)
(* Configuration of CircumferenceOnlyReconstructor.__init__                *)
(***************************************************************************)
views == <<"front", "left", "back", "right">>
frames_per_view == 30
min_joints_visible == 28
pose_stable_threshold == 15
NumLandmarks == 33

\* the literals of assess_pose_quality; the quality floor 0.7 in hundredths
HeadXMin == 100
HeadXMax == 540
MinTorso == 50
QualityFloor == 70

Pt(a, b, ratio100) == [indices |-> <<a, b>>, ratio |-> Rat(ratio100, 100)]

CIRCUMFERENCE_POINTS ==
    [chest         |-> Pt(11, 12, 130),
     waist         |-> Pt(23, 24, 135),
     hip           |-> Pt(23, 24, 135),
     biceps_left   |-> Pt(11, 13, 120),
     biceps_right  |-> Pt(12, 14, 120),
     forearm_left  |-> Pt(13, 15, 115),
     forearm_right |-> Pt(14, 16, 115),
     thigh_left    |-> Pt(23, 25, 120),
     thigh_right   |-> Pt(24, 26, 120),
     calf_left     |-> Pt(25, 27, 115),
     calf_right    |-> Pt(26, 28, 115)]

MeasurementNames == DOMAIN CIRCUMFERENCE_POINTS

(***************************************************************************)
(* assess_pose_quality                                                     *)
(***************************************************************************)
Report(v, q, i) == [is_valid |-> v, quality_score |-> q, issues |-> i]

\* mutant: the edges of the band are off centre
HeadIssue_OpenBand(lms) ==
    IF Present(At(lms, 0))
       /\ ~(RLess(FromInt(HeadXMin), At(lms, 0).x)
            /\ RLess(At(lms, 0).x, FromInt(HeadXMax)))
    THEN <<"Head not centered">> ELSE <<>>

HeadIssue(lms) ==
    IF Present(At(lms, 0))
       /\ (RLess(At(lms, 0).x, FromInt(HeadXMin))
           \/ RLess(FromInt(HeadXMax), At(lms, 0).x))
    THEN <<"Head not centered">> ELSE <<>>

TorsoIssue(lms) ==
    IF Present(At(lms, 11)) /\ Present(At(lms, 23))
       /\ RLess(RAbs(RSub(At(lms, 11).y, At(lms, 23).y)), FromInt(MinTorso))
    THEN <<"Stand upright">> ELSE <<>>

\* mutant: too few joints is one issue among the others
assess_pose_quality_NoEarlyReturn(landmarks_2d) ==
    IF landmarks_2d = NoList
    THEN Report(FALSE, Zero, <<"No landmarks detected">>)
    ELSE
    LET lms == Get(landmarks_2d)
        valid_landmarks == Len(SelectSeq(lms, Present))
        few == IF valid_landmarks < min_joints_visible
               THEN <<"Not enough joints">> ELSE <<>>
        issues == few \o HeadIssue(lms) \o TorsoIssue(lms)
        visibility_scores == Column(SelectSeq(lms, Present), "visibility")
        quality_score == IF visibility_scores # <<>>
                         THEN Mean(visibility_scores) ELSE Zero
    IN  Report(Len(issues) = 0 /\ RLess(FromInt(QualityFloor), quality_score),
               IF few # <<>> THEN Zero ELSE quality_score, issues)

assess_pose_quality(landmarks_2d) ==
    IF landmarks_2d = NoList
    THEN Report(FALSE, Zero, <<"No landmarks detected">>)
    ELSE
    LET lms == Get(landmarks_2d)
        valid_landmarks == Len(SelectSeq(lms, Present))
    IN  IF valid_landmarks < min_joints_visible
        THEN Report(FALSE, Zero, <<"Not enough joints">>)
        ELSE
        LET issues == HeadIssue(lms) \o TorsoIssue(lms)
            visibility_scores == Column(SelectSeq(lms, Present), "visibility")
            quality_score == IF visibility_scores # <<>>
                             THEN Mean(visibility_scores) ELSE Zero
        IN  Report(Len(issues) = 0 /\ RLess(FromInt(QualityFloor), quality_score),
                   quality_score, issues)

(***************************************************************************)
(* _average_landmarks                                                      *)
(***************************************************************************)
AveragePoint(valid_points) ==
    IF valid_points # <<>>
    THEN [x |-> Mean(Column(valid_points, "x")),
          y |-> Mean(Column(valid_points, "y")),
          z |-> Mean(Column(valid_points, "z")),
          visibility |-> Mean(Column(valid_points, "visibility"))]
    ELSE None

\* mutant: a joint is averaged over all the frames of the burst
average_landmarks_OverAllFrames(landmarks_list) ==
    IF landmarks_list = <<>> THEN NoList
    ELSE
    LET num_landmarks == Len(landmarks_list[1])
        FrameAt(idx) == [f \in 1..Len(landmarks_list) |-> At(landmarks_list[f], idx)]
        Scaled(p, k) ==
            IF p = None THEN None
            ELSE [c \in DOMAIN p |->
                    RDiv(RMul(p[c], FromInt(k)), FromInt(Len(landmarks_list)))]
    IN  Some([i \in 1..num_landmarks |->
                LET valid_points == SelectSeq(FrameAt(i - 1), Present)
                IN  Scaled(AveragePoint(valid_points), Len(valid_points))])

average_landmarks(landmarks_list) ==
    IF landmarks_list = <<>> THEN NoList
    ELSE
    LET num_landmarks == Len(landmarks_list[1])
        FrameAt(idx) == [f \in 1..Len(landmarks_list) |-> At(landmarks_list[f], idx)]
    IN  Some([i \in 1..num_landmarks |->
                AveragePoint(SelectSeq(FrameAt(i - 1), Present))])

(***************************************************************************)
(* triangulate_4view                                                       *)
(***************************************************************************)
Four == FromInt(4)

\* mutant: three views are enough for a joint
CombinePoint_ThreeViews(p_front, p_left, p_back, p_right) ==
    IF Present(p_front) /\ Present(p_left) /\ Present(p_back)
    THEN [x |-> RDiv(RAdd(RAdd(p_front.x, p_left.x), p_back.x), FromInt(3)),
          y |-> RDiv(RAdd(RAdd(p_front.y, p_left.y), p_back.y), FromInt(3)),
          z |-> RDiv(RAdd(RAdd(p_front.z, p_left.z), p_back.z), FromInt(3))]
    ELSE None

CombinePoint(p_front, p_left, p_back, p_right) ==
    IF Present(p_front) /\ Present(p_left) /\ Present(p_back) /\ Present(p_right)
    THEN [x |-> RDiv(RAdd(RAdd(RAdd(p_front.x, p_left.x), p_back.x), p_right.x), Four),
          y |-> RDiv(RAdd(RAdd(RAdd(p_front.y, p_left.y), p_back.y), p_right.y), Four),
          z |-> RDiv(RAdd(RAdd(RAdd(p_front.z, p_left.z), p_back.z), p_right.z), Four)]
    ELSE None

triangulate_4view(front, left, back, right) ==
    IF ~(Truthy(front) /\ Truthy(left) /\ Truthy(back) /\ Truthy(right))
    THEN NoList
    ELSE
    LET num_landmarks == Len(Get(front))
    IN  Some([i \in 1..num_landmarks |->
                CombinePoint(At(Get(front), i - 1), At(Get(left), i - 1),
                             At(Get(back), i - 1), At(Get(right), i - 1))])

(***************************************************************************)
(* calculate_circumference_only                                            *)
(***************************************************************************)
\* sqrt((p.x - q.x)**2 + (p.y - q.y)**2 + (p.z - q.z)**2)
SqDist(p, q) ==
    RAdd(RAdd(RSq(RSub(p.x, q.x)), RSq(RSub(p.y, q.y))), RSq(RSub(p.z, q.z)))
Dist(p, q) == Sqrt(SqDist(p, q))

\* mutant: without the head to foot distance the scale is the height
scale_factor_NoFallback(l3d, height_cm) ==
    IF Present(At(l3d, 0)) /\ Present(At(l3d, 29))
    THEN LET height_pixels == Dist(At(l3d, 0), At(l3d, 29))
         IN  IF RLess(Zero, height_pixels)
             THEN RDiv(FromInt(height_cm), height_pixels) ELSE FromInt(height_cm)
    ELSE FromInt(height_cm)

\* mutant: the scale is pixels per centimetre
scale_factor_Inverted(l3d, height_cm) ==
    IF Present(At(l3d, 0)) /\ Present(At(l3d, 29))
    THEN LET height_pixels == Dist(At(l3d, 0), At(l3d, 29))
         IN  IF RLess(Zero, height_pixels)
             THEN RDiv(height_pixels, FromInt(height_cm)) ELSE One
    ELSE One

scale_factor(l3d, height_cm) ==
    IF Present(At(l3d, 0)) /\ Present(At(l3d, 29))
    THEN LET height_pixels == Dist(At(l3d, 0), At(l3d, 29))
         IN  IF RLess(Zero, height_pixels)
             THEN RDiv(FromInt(height_cm), height_pixels) ELSE One
    ELSE One

Measurable(l3d, name) ==
    LET idx1 == CIRCUMFERENCE_POINTS[name].indices[1]
        idx2 == CIRCUMFERENCE_POINTS[name].indices[2]
    IN  /\ idx1 < Len(l3d) /\ idx2 < Len(l3d)
        /\ Present(At(l3d, idx1)) /\ Present(At(l3d, idx2))

Circumference(l3d, name, scale) ==
    LET config == CIRCUMFERENCE_POINTS[name]
        width == Dist(At(l3d, config.indices[1]), At(l3d, config.indices[2]))
    IN  Round2(RMul(RMul(width, config.ratio), scale))

\* mutant: a pair with an absent joint is reported as 0
calculate_circumference_only_ZeroForAbsent(landmarks_3d, height_cm) ==
    IF landmarks_3d = NoList THEN NoList
    ELSE
    LET l3d == Get(landmarks_3d)
        scale == scale_factor(l3d, height_cm)
    IN  Some([name \in MeasurementNames |->
                IF Measurable(l3d, name) THEN Circumference(l3d, name, scale) ELSE 0])

calculate_circumference_only(landmarks_3d, height_cm) ==
    IF landmarks_3d = NoList THEN NoList
    ELSE
    LET l3d == Get(landmarks_3d)
        scale == scale_factor(l3d, height_cm)
    IN  Some([name \in {m \in MeasurementNames : Measurable(l3d, m)} |->
                Circumference(l3d, name, scale)])

(***************************************************************************)
(* The frames of the model: what extract_landmarks_2d hands to the loop.   *)
(* Every frame is Python None (no pose detected) or a list of NumLandmarks *)
(* entries, as the pose model emits them; an entry is None when its        *)
(* visibility is not above min_visibility_score.                           *)
(***************************************************************************)
Lm(x, y, z, vis) ==
    [x |-> FromInt(x), y |-> FromInt(y), z |-> FromInt(z), visibility |-> FromInt(vis)]

\* pixel positions of a standing body in a 640 x 480 frame, by joint index
SkeletonXY(i) ==
    CASE i = 0  -> <<320, 70>>
      [] i = 11 -> <<280, 150>>
      [] i = 12 -> <<360, 150>>
      [] i = 13 -> <<250, 190>>
      [] i = 14 -> <<390, 190>>
      [] i = 15 -> <<250, 250>>
      [] i = 16 -> <<390, 250>>
      [] i = 23 -> <<290, 270>>
      [] i = 24 -> <<350, 270>>
      [] i = 25 -> <<290, 350>>
      [] i = 26 -> <<350, 350>>
      [] i = 27 -> <<290, 400>>
      [] i = 28 -> <<350, 400>>
      [] i = 29 -> <<320, 410>>
      [] OTHER  -> <<320, 80 + i>>

\* the body stands a little off the frame centre, differently in each view
ViewOffset(view) ==
    CASE view = "front" -> 0
      [] view = "left"  -> 8
      [] view = "back"  -> 0
      [] view = "right" -> -4

GoodFrame(view) ==
    Some([i \in 1..NumLandmarks |->
            Lm(SkeletonXY(i - 1)[1] + ViewOffset(view), SkeletonXY(i - 1)[2], 0, 90)])

\* joints 30, 31, 32 (heels, right foot index) not visible: 30 of 33 present
PartialFrame(view) ==
    Some([i \in 1..NumLandmarks |-> IF i - 1 >= 30 THEN None ELSE Get(GoodFrame(view))[i]])

\* only 20 joints visible
FewFrame(view) ==
    Some([i \in 1..NumLandmarks |-> IF i - 1 >= 20 THEN None ELSE Get(GoodFrame(view))[i]])

\* every joint visible, the head left of the centered band
OffCenterFrame(view) ==
    Some([i \in 1..NumLandmarks |->
            IF i - 1 = 0 THEN Lm(50, 70, 0, 90) ELSE Get(GoodFrame(view))[i]])

\* every joint visible, the left shoulder 40 px above the left hip
SlouchFrame(view) ==
    Some([i \in 1..NumLandmarks |->
            IF i - 1 = 11 THEN Lm(280, 230, 0, 90) ELSE Get(GoodFrame(view))[i]])

\* mutant: any frame with a pose passes line 241
AllPresent_AnyPose(landmarks_2d) == Truthy(landmarks_2d)

\* line 241: landmarks_2d and all(l is not None for l in landmarks_2d)
AllPresent(landmarks_2d) ==
    Truthy(landmarks_2d) /\ \A i \in 1..Len(Get(landmarks_2d)) : Present(Get(landmarks_2d)[i])

ViewNames == {views[i] : i \in 1..Len(views)}
FrameKinds == {"none", "good", "partial", "few", "offcenter", "slouch"}

FrameOfKind(view, kind) ==
    CASE kind = "none"      -> NoList
      [] kind = "good"      -> GoodFrame(view)
      [] kind = "partial"   -> PartialFrame(view)
      [] kind = "few"       -> FewFrame(view)
      [] kind = "offcenter" -> OffCenterFrame(view)
      [] kind = "slouch"    -> SlouchFrame(view)

\* the frames a view's capture may read (lines 207-214), by kind
Frame == [view \in ViewNames |-> [kind \in FrameKinds |-> FrameOfKind(view, kind)]]

\* line 215 on each of them (computed once per frame of the model)
Quality ==
    [view \in ViewNames |-> [kind \in FrameKinds |-> assess_pose_quality(Frame[view][kind])]]

\* line 241 on each of them
Complete == [view \in ViewNames |-> [kind \in FrameKinds |-> AllPresent(Frame[view][kind])]]

\* cv2.waitKey(1) & 0xFF: 'q', 's', or anything else (no key included)
Keys == {"other", "q", "s"}

Heights == {170, 180}

(***************************************************************************)
(* Bounds of the model                                                     *)
(***************************************************************************)
\* no more valid frames in a row than this are fed to one view capture
MaxStableCount == 45
\* the clock of the model stops this many seconds after the last valid pose
MaxIdleSeconds == 61
\* the length of the first run of valid frames in the monitored scenario
ScenarioFirstRun == 10

\* advanced_config.AUTO_CAPTURE_TIMEOUT, in seconds
AUTO_CAPTURE_TIMEOUT == 60

(***************************************************************************)
(* auto_capture_view: one iteration of the capture loop                    *)
(***************************************************************************)
Locals(count, started, fc, list) ==
    [pose_stable_count |-> count, auto_capture_started |-> started,
     frame_count |-> fc, valid_landmarks_list |-> list]

\* lines 200-204
FreshLocals == Locals(0, FALSE, 0, <<>>)

CurrentLocals ==
    Locals(pose_stable_count, auto_capture_started, frame_count, valid_landmarks_list)

\* mutant: an invalid frame ends capturing but the burst is kept
UpdateStability_KeepsBurst(l, is_valid) ==
    IF is_valid
    THEN Locals(l.pose_stable_count + 1,
                l.auto_capture_started
                    \/ l.pose_stable_count + 1 >= pose_stable_threshold,
                l.frame_count, l.valid_landmarks_list)
    ELSE Locals(0, FALSE, l.frame_count, l.valid_landmarks_list)

\* mutant: an invalid frame resets the stable count only while capturing
UpdateStability_KeepsCount(l, is_valid) ==
    IF is_valid
    THEN Locals(l.pose_stable_count + 1,
                l.auto_capture_started
                    \/ l.pose_stable_count + 1 >= pose_stable_threshold,
                l.frame_count, l.valid_landmarks_list)
    ELSE IF l.auto_capture_started
         THEN Locals(0, FALSE, 0, <<>>)
         ELSE l

\* mutant: capturing starts one frame after the threshold is reached
UpdateStability_StartsLate(l, is_valid) ==
    IF is_valid
    THEN Locals(l.pose_stable_count + 1,
                l.auto_capture_started
                    \/ l.pose_stable_count + 1 > pose_stable_threshold,
                l.frame_count, l.valid_landmarks_list)
    ELSE IF l.auto_capture_started
         THEN Locals(0, FALSE, 0, <<>>)
         ELSE Locals(0, l.auto_capture_started, l.frame_count, l.valid_landmarks_list)

\* lines 224-237, "Update stability"
UpdateStability(l, is_valid) ==
    IF is_valid
    THEN Locals(l.pose_stable_count + 1,
                l.auto_capture_started
                    \/ l.pose_stable_count + 1 >= pose_stable_threshold,
                l.frame_count, l.valid_landmarks_list)
    ELSE IF l.auto_capture_started
         THEN Locals(0, FALSE, 0, <<>>)
         ELSE Locals(0, l.auto_capture_started, l.frame_count, l.valid_landmarks_list)

\* mutant: every frame read while capturing is appended
Accepts_AnyFrame(l, all_present) == l.auto_capture_started

\* lines 240-241: the frame is appended; all_present is line 241's test of it
Accepts(l, all_present) == l.auto_capture_started /\ all_present

\* mutant: the frame is appended and not counted
AutoCapture_NoCount(l, all_present, ref) ==
    IF Accepts(l, all_present)
    THEN Locals(l.pose_stable_count, l.auto_capture_started, l.frame_count,
                Append(l.valid_landmarks_list, ref))
    ELSE l

\* lines 239-243, "Auto-capture frames"; ref names the frame landmarks_2d
AutoCapture(l, all_present, ref) ==
    IF Accepts(l, all_present)
    THEN Locals(l.pose_stable_count, l.auto_capture_started, l.frame_count + 1,
                Append(l.valid_landmarks_list, ref))
    ELSE l

\* mutant: the burst is complete one frame late
BurstComplete_Late(l, all_present, after) ==
    Accepts(l, all_present) /\ after.frame_count > frames_per_view

\* line 247, reached only when the frame was appended: the loop is left at
\* line 250, before the key is read
BurstComplete(l, all_present, after) ==
    Accepts(l, all_present) /\ after.frame_count >= frames_per_view

\* lines 213-250 on one frame: the locals after it, and whether line 250 is reached
FrameEffect(l, ref, is_valid, all_present) ==
    LET stable == UpdateStability(l, is_valid)
        after == AutoCapture(stable, all_present, ref)
    IN  [after |-> after, completes |-> BurstComplete(stable, all_present, after)]

\* the landmark lists a list of frame references stands for
Burst(view, list) == [i \in 1..Len(list) |-> Get(Frame[view][list[i]])]

\* lines 282-288: what the call returns once the loop is left by a break.
\* view_result holds the success flag and the burst; the landmarks returned
\* are ReturnedLandmarks of it, evaluated where run_full_capture stores them
\* (line 413)
ReturnAfterLoop(list) == [success |-> list # <<>>, burst |-> list]

ReturnedLandmarks(view, r) ==
    IF r.burst # <<>> THEN average_landmarks(Burst(view, r.burst)) ELSE NoList

\* mutant: 'q' leaves the loop by a break, as 's' does
ReturnOnQuit_AsBreak == [success |-> TRUE, burst |-> <<"good">>]

\* line 278
ReturnOnQuit == [success |-> FALSE, burst |-> <<>>]

NoReturn == [success |-> FALSE, burst |-> <<>>]

SetLocals(l) ==
    /\ pose_stable_count' = l.pose_stable_count
    /\ auto_capture_started' = l.auto_capture_started
    /\ frame_count' = l.frame_count
    /\ valid_landmarks_list' = l.valid_landmarks_list

(***************************************************************************)
(* Observations of one call of auto_capture_view (history variables):      *)
(*   run_len   the number of valid frames in a row read last               *)
(*   scen      the number of frames read, while the frames read are a      *)
(*             prefix of: ScenarioFirstRun valid, one invalid, valid ...;  *)
(*             -1 once they are not                                        *)
(*   idle_s    seconds since the last valid pose (or the start of the call)*)
(*   read      a frame has been read in this call; valid and full describe *)
(*             the last one                                                *)
(*   key       what ended the last iteration: "other", "q", "s", or        *)
(*             "unread" (the loop was left before cv2.waitKey), "eof"      *)
(*             (cap.read() failed)                                         *)
(*   was_capturing  auto_capture_started before the last frame read        *)
(*   had_burst      the buffer was not empty before the last frame read    *)
(*   capturing      auto_capture_started after the last frame read         *)
(*   stale     the accepted frames in the buffer that were accepted before *)
(*             the last invalid frame                                      *)
(*   averaged  the number of frames handed to _average_landmarks when the  *)
(*             call returned, 0 when it was not called                     *)
(*   quit_view the view in which 'q' was read, 0 if it never was           *)
(*   calls     the number of calls of auto_capture_view begun              *)
(* When the call returns its locals are gone (they read as FreshLocals),    *)
(* and so are run_len, scen and idle_s; the rest describes the iteration   *)
(* that ended the call.                                                    *)
(***************************************************************************)
FreshObs(calls, quit_view) ==
    [run_len |-> 0, scen |-> 0, idle_s |-> 0, read |-> FALSE, valid |-> FALSE,
     full |-> FALSE, key |-> "unread", stale |-> 0, was_capturing |-> FALSE,
     had_burst |-> FALSE, capturing |-> FALSE,
     averaged |-> 0, quit_view |-> quit_view, calls |-> calls]

ScenarioNext(scen, is_valid) ==
    IF scen < 0 THEN -1
    ELSE IF scen = ScenarioFirstRun THEN (IF is_valid THEN -1 ELSE scen + 1)
    ELSE IF is_valid THEN scen + 1 ELSE -1

ObserveFrame(is_valid, all_present, key, dt, after) ==
    [obs EXCEPT
        !.run_len = IF is_valid THEN @ + 1 ELSE 0,
        !.scen = ScenarioNext(@, is_valid),
        !.idle_s = IF is_valid THEN 0 ELSE @ + dt,
        !.read = TRUE,
        !.valid = is_valid,
        !.full = all_present,
        !.key = key,
        !.stale = IF is_valid THEN @ ELSE Len(after.valid_landmarks_list),
        !.was_capturing = auto_capture_started,
        !.had_burst = valid_landmarks_list # <<>>,
        !.capturing = after.auto_capture_started,
        !.quit_view = IF key = "q" THEN view_idx ELSE @]

ObserveReturn(o, n) == [o EXCEPT !.run_len = 0, !.scen = -1, !.idle_s = 0, !.averaged = n]

\* the frames the model feeds: bounded runs of valid frames, a bounded clock
Feedable(is_valid, dt) ==
    /\ is_valid => pose_stable_count < MaxStableCount
    /\ obs.idle_s + dt <= MaxIdleSeconds

\* the whole seconds that may pass between two frames; the clock is observed
\* only as idle_s, which a valid frame resets
Elapsed(is_valid) == IF is_valid THEN {0} ELSE {0, 1}

(***************************************************************************)
(* The session: run_full_capture and the calls of auto_capture_view        *)
(***************************************************************************)
CurrentView == views[view_idx]

DictGet(d, k) == IF k \in DOMAIN d THEN d[k] ELSE NoList
DictPut(d, k, v) == [j \in DOMAIN d \cup {k} |-> IF j = k THEN v ELSE d[j]]
EmptyDict == [j \in {} |-> NoList]

PoseIdle == pose_in = <<>> /\ pose_out = <<>>
ValIdle == val_in = <<>> /\ val_out = <<>>

PureIdle ==
    /\ avg_in = <<>> /\ avg_out = NoList
    /\ tri_in = <<>> /\ tri_out = NoList
    /\ circ_in = <<>> /\ circ_out = NoList
    /\ PoseIdle /\ ValIdle

SessionIdle ==
    /\ view_idx = 1
    /\ frame_count = 0
    /\ valid_landmarks_list = <<>>
    /\ pose_stable_count = 0
    /\ auto_capture_started = FALSE
    /\ capture_complete = FALSE
    /\ view_result = NoReturn
    /\ landmarks_dict = EmptyDict
    /\ measurements = Some(EmptyDict)
    /\ saved = <<>>
    /\ result = "none"
    /\ obs = FreshObs(0, 0)

\* the state after __init__ (lines 24-123), for a height main() accepts
Init ==
    /\ pc = "idle"
    /\ user_height_cm \in Heights
    /\ SessionIdle
    /\ PureIdle

\* run_full_capture, lines 400-411, and the first call's lines 200-204
StartCapture ==
    /\ pc = "idle"
    /\ IF capture_complete
       THEN /\ pc' = "done"
            /\ result' = "failure"
            /\ UNCHANGED <<view_idx, frame_count, valid_landmarks_list,
                           pose_stable_count, auto_capture_started, obs>>
       ELSE /\ pc' = "loop"
            /\ view_idx' = 1
            /\ SetLocals(FreshLocals)
            /\ obs' = FreshObs(1, 0)
            /\ UNCHANGED result
    /\ landmarks_dict' = EmptyDict
    /\ UNCHANGED <<user_height_cm, capture_complete, view_result, measurements, saved>>
    /\ UNCHANGED pureVars

sessionRest == <<user_height_cm, view_idx, landmarks_dict, measurements, saved, result>>

\* lines 207-280 for a frame that neither completes the burst nor is
\* followed by 'q' or 's': the loop goes round
FrameContinues ==
    \E kind \in FrameKinds :
    LET is_valid == Quality[CurrentView][kind].is_valid
        all_present == Complete[CurrentView][kind]
        e == FrameEffect(CurrentLocals, kind, is_valid, all_present)
    IN  \E dt \in Elapsed(is_valid) :
        /\ pc = "loop"
        /\ Feedable(is_valid, dt)
        /\ ~e.completes
        /\ SetLocals(e.after)
        /\ obs' = ObserveFrame(is_valid, all_present, "other", dt, e.after)
        /\ UNCHANGED <<pc, capture_complete, view_result, sessionRest>>
        /\ UNCHANGED pureVars

\* lines 207-250 and 282-288: the frame is the frames_per_view-th accepted
\* frame, the loop is left at line 250 without reading the key
FrameCompletes ==
    \E kind \in FrameKinds :
    LET is_valid == Quality[CurrentView][kind].is_valid
        all_present == Complete[CurrentView][kind]
        e == FrameEffect(CurrentLocals, kind, is_valid, all_present)
    IN  \E dt \in Elapsed(is_valid) :
        /\ pc = "loop"
        /\ Feedable(is_valid, dt)
        /\ e.completes
        /\ SetLocals(FreshLocals)
        /\ view_result' = ReturnAfterLoop(e.after.valid_landmarks_list)
        /\ obs' = ObserveReturn(ObserveFrame(is_valid, all_present, "unread", dt, e.after),
                                Len(e.after.valid_landmarks_list))
        /\ pc' = "returned"
        /\ UNCHANGED <<capture_complete, sessionRest>>
        /\ UNCHANGED pureVars

\* lines 207-278: 'q' is read after the frame
FrameQuit ==
    \E kind \in FrameKinds :
    LET is_valid == Quality[CurrentView][kind].is_valid
        all_present == Complete[CurrentView][kind]
        e == FrameEffect(CurrentLocals, kind, is_valid, all_present)
    IN  \E dt \in Elapsed(is_valid) :
        /\ pc = "loop"
        /\ Feedable(is_valid, dt)
        /\ ~e.completes
        /\ SetLocals(FreshLocals)
        /\ capture_complete' = TRUE
        /\ view_result' = ReturnOnQuit
        /\ obs' = ObserveReturn(ObserveFrame(is_valid, all_present, "q", dt, e.after), 0)
        /\ pc' = "returned"
        /\ UNCHANGED sessionRest
        /\ UNCHANGED pureVars

\* lines 207-280 and 282-288: 's' is read after the frame
FrameSkip ==
    \E kind \in FrameKinds :
    LET is_valid == Quality[CurrentView][kind].is_valid
        all_present == Complete[CurrentView][kind]
        e == FrameEffect(CurrentLocals, kind, is_valid, all_present)
    IN  \E dt \in Elapsed(is_valid) :
        /\ pc = "loop"
        /\ Feedable(is_valid, dt)
        /\ ~e.completes
        /\ SetLocals(FreshLocals)
        /\ view_result' = ReturnAfterLoop(e.after.valid_landmarks_list)
        /\ obs' = ObserveReturn(ObserveFrame(is_valid, all_present, "s", dt, e.after),
                                Len(e.after.valid_landmarks_list))
        /\ pc' = "returned"
        /\ UNCHANGED <<capture_complete, sessionRest>>
        /\ UNCHANGED pureVars

\* lines 207-209 and 282-288: cap.read() fails
SourceEnded ==
    /\ pc = "loop"
    /\ view_result' = ReturnAfterLoop(valid_landmarks_list)
    /\ SetLocals(FreshLocals)
    /\ obs' = ObserveReturn([obs EXCEPT !.key = "eof"], Len(valid_landmarks_list))
    /\ pc' = "returned"
    /\ UNCHANGED <<capture_complete, sessionRest>>
    /\ UNCHANGED pureVars

\* mutant: line 418 returns True
ViewFailed_ReturnsTrue ==
    /\ pc = "returned"
    /\ ~view_result.success
    /\ result' = "success"
    /\ pc' = "done"
    /\ UNCHANGED <<user_height_cm, view_idx, frame_count, valid_landmarks_list,
                   pose_stable_count, auto_capture_started, capture_complete,
                   view_result, landmarks_dict, measurements, saved, obs>>
    /\ UNCHANGED pureVars

\* run_full_capture, lines 414-418: the view was not captured
ViewFailed ==
    /\ pc = "returned"
    /\ ~view_result.success
    /\ result' = "failure"
    /\ pc' = "done"
    /\ UNCHANGED <<user_height_cm, view_idx, frame_count, valid_landmarks_list,
                   pose_stable_count, auto_capture_started, capture_complete,
                   view_result, landmarks_dict, measurements, saved, obs>>
    /\ UNCHANGED pureVars

\* run_full_capture, lines 412-413 and 407-411, and the next call's lines 200-204
NextView ==
    /\ pc = "returned"
    /\ view_result.success
    /\ view_idx < Len(views)
    /\ ~capture_complete
    /\ landmarks_dict' = DictPut(landmarks_dict, CurrentView, ReturnedLandmarks(CurrentView, view_result))
    /\ view_idx' = view_idx + 1
    /\ SetLocals(FreshLocals)
    /\ obs' = FreshObs(obs.calls + 1, obs.quit_view)
    /\ view_result' = NoReturn
    /\ pc' = "loop"
    /\ UNCHANGED <<user_height_cm, capture_complete, measurements, saved, result>>
    /\ UNCHANGED pureVars

\* _save_measurements, lines 460-478: the record written
SavedRecord(height_cm, m) ==
    [timestamp |-> "now", user_height_cm |-> height_cm, measurements |-> Get(m),
     capture_type |-> "4-view_auto-capture_circumference_only"]

\* run_full_capture, lines 420-458, on the views captured: the measurements
\* assigned, the records saved and the value returned
Reconstruct(dict, height_cm, complete, old_measurements, old_saved) ==
    LET landmarks_3d == triangulate_4view(DictGet(dict, "front"), DictGet(dict, "left"),
                                          DictGet(dict, "back"), DictGet(dict, "right"))
        m == calculate_circumference_only(landmarks_3d, height_cm)
    IN  IF complete
        THEN [measurements |-> old_measurements, saved |-> old_saved, result |-> "failure"]
        ELSE IF landmarks_3d = NoList
        THEN [measurements |-> old_measurements, saved |-> old_saved, result |-> "failure"]
        ELSE IF ~Truthy(m)
        THEN [measurements |-> m, saved |-> old_saved, result |-> "failure"]
        ELSE [measurements |-> m, saved |-> Append(old_saved, SavedRecord(height_cm, m)),
              result |-> "success"]

\* run_full_capture, lines 412-413 and 407-409 for the last view (or after a
\* cancellation), then lines 420-458
CaptureLoopEnds ==
    /\ pc = "returned"
    /\ view_result.success
    /\ view_idx = Len(views) \/ capture_complete
    /\ landmarks_dict' = DictPut(landmarks_dict, CurrentView, ReturnedLandmarks(CurrentView, view_result))
    /\ LET r == Reconstruct(landmarks_dict', user_height_cm, capture_complete,
                            measurements, saved)
       IN  /\ measurements' = r.measurements
           /\ saved' = r.saved
           /\ result' = r.result
    /\ pc' = "done"
    /\ UNCHANGED <<user_height_cm, view_idx, frame_count, valid_landmarks_list,
                   pose_stable_count, auto_capture_started, capture_complete,
                   view_result, obs>>
    /\ UNCHANGED pureVars

Next ==
    \/ StartCapture
    \/ FrameContinues
    \/ FrameCompletes
    \/ FrameQuit
    \/ FrameSkip
    \/ SourceEnded
    \/ ViewFailed
    \/ NextView
    \/ CaptureLoopEnds

Spec == Init /\ [][Next]_vars

(***************************************************************************)
(* One call of auto_capture_view on a source that never ends, with no key  *)
(* pressed, whose frames settle: from some frame on every frame is valid   *)
(* and has all joints.  Two more observations:                             *)
(*   settled   that frame has been reached                                 *)
(*   good_len  the number of frames in a row read last that are valid and  *)
(*             have all joints                                             *)
(***************************************************************************)
\* before the frames settle no more valid frames in a row than this are read
MaxWarmup == 16

SteadyObs ==
    [run_len |-> 0, scen |-> 0, idle_s |-> 0, read |-> FALSE, valid |-> FALSE,
     full |-> FALSE, key |-> "unread", stale |-> 0, was_capturing |-> FALSE,
     had_burst |-> FALSE, capturing |-> FALSE,
     averaged |-> 0, quit_view |-> 0, calls |-> 1,
     settled |-> FALSE, good_len |-> 0]

\* run_full_capture has called auto_capture_view for the first view
InitSteady ==
    /\ pc = "loop"
    /\ user_height_cm \in Heights
    /\ view_idx = 1
    /\ pose_stable_count = 0
    /\ auto_capture_started = FALSE
    /\ frame_count = 0
    /\ valid_landmarks_list = <<>>
    /\ capture_complete = FALSE
    /\ view_result = NoReturn
    /\ landmarks_dict = EmptyDict
    /\ measurements = Some(EmptyDict)
    /\ saved = <<>>
    /\ result = "none"
    /\ obs = SteadyObs
    /\ PureIdle

\* the frames the source may deliver next
SteadyKinds ==
    IF obs.settled
    THEN {kind \in FrameKinds :
            Quality[CurrentView][kind].is_valid /\ Complete[CurrentView][kind]}
    ELSE FrameKinds

SteadyFeedable(is_valid) ==
    obs.settled \/ ~is_valid \/ pose_stable_count < MaxWarmup

ObserveSteady(o, is_valid, all_present) ==
    [o EXCEPT !.good_len = IF is_valid /\ all_present THEN obs.good_len + 1 ELSE 0]

\* the frames are as the claim supposes from the next frame on
FramesSettle ==
    /\ pc = "loop"
    /\ ~obs.settled
    /\ obs' = [obs EXCEPT !.settled = TRUE]
    /\ UNCHANGED <<pc, frame_count, valid_landmarks_list, pose_stable_count,
                   auto_capture_started, capture_complete, view_result, sessionRest>>
    /\ UNCHANGED pureVars

\* lines 207-280, no key pressed: the loop goes round
SteadyFrameContinues ==
    \E kind \in SteadyKinds :
    LET is_valid == Quality[CurrentView][kind].is_valid
        all_present == Complete[CurrentView][kind]
        e == FrameEffect(CurrentLocals, kind, is_valid, all_present)
    IN  /\ pc = "loop"
        /\ SteadyFeedable(is_valid)
        /\ ~e.completes
        /\ SetLocals(e.after)
        /\ obs' = ObserveSteady(ObserveFrame(is_valid, all_present, "other", 0, e.after),
                                is_valid, all_present)
        /\ UNCHANGED <<pc, capture_complete, view_result, sessionRest>>
        /\ UNCHANGED pureVars

\* lines 207-250 and 282-288: the burst is complete, the call returns
SteadyFrameCompletes ==
    \E kind \in SteadyKinds :
    LET is_valid == Quality[CurrentView][kind].is_valid
        all_present == Complete[CurrentView][kind]
        e == FrameEffect(CurrentLocals, kind, is_valid, all_present)
    IN  /\ pc = "loop"
        /\ SteadyFeedable(is_valid)
        /\ e.completes
        /\ SetLocals(FreshLocals)
        /\ view_result' = ReturnAfterLoop(e.after.valid_landmarks_list)
        /\ obs' = ObserveSteady(
                     ObserveReturn(ObserveFrame(is_valid, all_present, "unread", 0, e.after),
                                   Len(e.after.valid_landmarks_list)),
                     is_valid, all_present)
        /\ pc' = "returned"
        /\ UNCHANGED <<capture_complete, sessionRest>>
        /\ UNCHANGED pureVars

NextSteady == FramesSettle \/ SteadyFrameContinues \/ SteadyFrameCompletes

\* while the call is in its loop it reads the next frame (line 207)
SpecSteady ==
    InitSteady /\ [][NextSteady]_vars
        /\ WF_vars(SteadyFrameContinues \/ SteadyFrameCompletes)

(***************************************************************************)
(* The calls of the pure functions, with the exceptions their subscripts   *)
(* raise on lists that are too short                                       *)
(***************************************************************************)
\* an exception that leaves the function
Raised(e) == [raised |-> e]

\* _average_landmarks: frame[idx] at line 300, for idx below the length of
\* the first frame
average_landmarks_raises(landmarks_list) ==
    /\ landmarks_list # <<>>
    /\ \E f \in 1..Len(landmarks_list) : Len(landmarks_list[f]) < Len(landmarks_list[1])

\* triangulate_4view: left[idx], back[idx] and right[idx] at lines 330-332,
\* for idx below the length of front
triangulate_4view_raises(front, left, back, right) ==
    /\ Truthy(front) /\ Truthy(left) /\ Truthy(back) /\ Truthy(right)
    /\ \E view \in {left, back, right} : Len(Get(view)) < Len(Get(front))

\* calculate_circumference_only: landmarks_3d[0] and, when that is a joint,
\* landmarks_3d[29] at line 354
calculate_circumference_only_raises(landmarks_3d) ==
    /\ landmarks_3d # NoList
    /\ \/ Len(Get(landmarks_3d)) = 0
       \/ Present(At(Get(landmarks_3d), 0)) /\ Len(Get(landmarks_3d)) < 30

(***************************************************************************)
(* _average_landmarks on its own: every burst of at most MaxBurst frames   *)
(* over two joints, a joint being absent or one of AvgPoints               *)
(***************************************************************************)
MaxBurst == 3
AvgPoints == {Lm(1, 20, 300, 52), Lm(4, 50, 600, 91)}
AvgFrames == {<<a, b>> : a, b \in {None} \cup AvgPoints}
AvgBursts == UNION {[1..m -> AvgFrames] : m \in 0..MaxBurst}

InitAverage ==
    /\ pc = "average"
    /\ user_height_cm = 170
    /\ SessionIdle
    /\ avg_in \in AvgBursts /\ avg_out = NoList
    /\ tri_in = <<>> /\ tri_out = NoList
    /\ circ_in = <<>> /\ circ_out = NoList
    /\ PoseIdle /\ ValIdle

Average ==
    /\ pc = "average"
    /\ IF average_landmarks_raises(avg_in)
       THEN avg_out' = Raised("IndexError") /\ pc' = "raised"
       ELSE avg_out' = average_landmarks(avg_in) /\ pc' = "averaged"
    /\ UNCHANGED <<avg_in, sessionState, triVars, circVars, poseVars, valVars>>

NextAverage == Average

SpecAverage == InitAverage /\ [][NextAverage]_vars

(***************************************************************************)
(* triangulate_4view on its own: each view is None, an empty list or a     *)
(* list over two joints, a joint being absent or one of TriPoints          *)
(***************************************************************************)
TriPoints == {Lm(8, 40, 2, 90), Lm(12, 60, 7, 80)}
TriLists == {<<a, b>> : a, b \in {None} \cup TriPoints}
TriViews == {NoList, Some(<<>>)} \cup {Some(l) : l \in TriLists}

InitTriangulate ==
    /\ pc = "combine"
    /\ user_height_cm = 170
    /\ SessionIdle
    /\ avg_in = <<>> /\ avg_out = NoList
    /\ tri_in \in [front : TriViews, left : TriViews, back : TriViews, right : TriViews]
    /\ tri_out = NoList
    /\ circ_in = <<>> /\ circ_out = NoList
    /\ PoseIdle /\ ValIdle

Triangulate ==
    /\ pc = "combine"
    /\ IF triangulate_4view_raises(tri_in.front, tri_in.left, tri_in.back, tri_in.right)
       THEN tri_out' = Raised("IndexError") /\ pc' = "raised"
       ELSE /\ tri_out' = triangulate_4view(tri_in.front, tri_in.left,
                                            tri_in.back, tri_in.right)
            /\ pc' = "combined"
    /\ UNCHANGED <<tri_in, sessionState, avgVars, circVars, poseVars, valVars>>

NextTriangulate == Triangulate

SpecTriangulate == InitTriangulate /\ [][NextTriangulate]_vars

(***************************************************************************)
(* calculate_circumference_only on its own: the 3D landmarks of a body     *)
(* with the head at the origin, the foot at one of FootOffsets from it,    *)
(* the shoulders one of ShoulderHalfWidths to each side, some of           *)
(* MaybeMissing absent; or no landmarks at all.  All the distances between *)
(* the joints of a pair are whole numbers.                                 *)
(***************************************************************************)
P3(x, y, z) == [x |-> FromInt(x), y |-> FromInt(y), z |-> FromInt(z)]
Shift(p, dx, dy, dz) ==
    [x |-> RAdd(p.x, FromInt(dx)), y |-> RAdd(p.y, FromInt(dy)), z |-> RAdd(p.z, FromInt(dz))]

FootOffsets == {<<0, 170, 0>>, <<0, 340, 0>>, <<102, 136, 0>>, <<0, 0, 0>>}
ShoulderHalfWidths == {20, 15}
MaybeMissing == {0, 11, 13, 24, 26, 29}

RECURSIVE BodyJoint(_, _, _)
BodyJoint(i, half, foot) ==
    CASE i = 0  -> P3(0, 0, 0)
      [] i = 29 -> P3(foot[1], foot[2], foot[3])
      [] i = 11 -> P3(-half, 30, 0)
      [] i = 12 -> P3(half, 30, 0)
      [] i = 13 -> Shift(BodyJoint(11, half, foot), -18, 24, 0)
      [] i = 14 -> Shift(BodyJoint(12, half, foot), 0, 0, 28)
      [] i = 15 -> Shift(BodyJoint(13, half, foot), 0, 25, 0)
      [] i = 16 -> Shift(BodyJoint(14, half, foot), 0, 20, 15)
      [] i = 23 -> P3(-16, 90, 0)
      [] i = 24 -> P3(16, 90, 0)
      [] i = 25 -> Shift(BodyJoint(23, half, foot), 0, 40, 0)
      [] i = 26 -> Shift(BodyJoint(24, half, foot), 0, 24, 32)
      [] i = 27 -> Shift(BodyJoint(25, half, foot), 0, 36, 0)
      [] i = 28 -> Shift(BodyJoint(26, half, foot), 12, 9, 36)
      [] OTHER  -> P3(0, i, 0)

Body(half, foot, missing) ==
    [n \in 1..NumLandmarks |->
        IF (n - 1) \in missing THEN None ELSE BodyJoint(n - 1, half, foot)]

Bodies ==
    {NoList} \cup {Some(Body(half, foot, missing)) :
                     half \in ShoulderHalfWidths, foot \in FootOffsets,
                     missing \in SUBSET MaybeMissing}

InitMeasure ==
    /\ pc = "measure"
    /\ user_height_cm \in Heights
    /\ SessionIdle
    /\ avg_in = <<>> /\ avg_out = NoList
    /\ tri_in = <<>> /\ tri_out = NoList
    /\ circ_in \in Bodies /\ circ_out = NoList
    /\ PoseIdle /\ ValIdle

Measure ==
    /\ pc = "measure"
    /\ IF calculate_circumference_only_raises(circ_in)
       THEN circ_out' = Raised("IndexError") /\ pc' = "raised"
       ELSE /\ circ_out' = calculate_circumference_only(circ_in, user_height_cm)
            /\ pc' = "measured"
    /\ UNCHANGED <<circ_in, sessionState, avgVars, triVars, poseVars, valVars>>

NextMeasure == Measure

SpecMeasure == InitMeasure /\ [][NextMeasure]_vars

(***************************************************************************)
(* CircumferenceAnalyzer: validate_circumference and the loop of           *)
(* plot_circumferences that reads its result.  Values are in hundredths of *)
(* a centimetre, as round(v, 2) leaves them.                               *)
(***************************************************************************)
Std(min, max, target) == [min |-> min, max |-> max, target |-> target]

CIRCUMFERENCE_STANDARDS ==
    [chest       |-> Std(75, 120, 95),
     waist       |-> Std(60, 110, 80),
     hip         |-> Std(85, 130, 100),
     arm_bicep   |-> Std(22, 38, 30),
     thigh_upper |-> Std(40, 70, 55),
     calf        |-> Std(30, 45, 38)]

\* lines 33-67
validate_circumference(measurement_name, value_cm) ==
    IF measurement_name \notin DOMAIN CIRCUMFERENCE_STANDARDS
    THEN [valid |-> TRUE, message |-> "No standard available"]
    ELSE
    LET standard == CIRCUMFERENCE_STANDARDS[measurement_name]
    IN  IF value_cm < standard.min * 100
        THEN [valid |-> FALSE, message |-> "Below minimum", status |-> "too_small"]
        ELSE IF value_cm > standard.max * 100
        THEN [valid |-> FALSE, message |-> "Above maximum", status |-> "too_large"]
        ELSE LET diff_from_target == value_cm - standard.target * 100
             IN  [valid |-> TRUE, message |-> "Within range",
                  status |-> IF Abs(diff_from_target) < 500 THEN "ideal"
                             ELSE IF diff_from_target > 0 THEN "above_target"
                             ELSE "below_target",
                  diff_from_target |-> diff_from_target]

\* plot_circumferences, line 171: validation["status"] is a KeyError when a
\* validation has no status
plot_circumferences_raises(circumferences) ==
    \E name \in DOMAIN circumferences :
        "status" \notin DOMAIN validate_circumference(name, circumferences[name])

\* plot_circumferences, lines 142-146 and 167-171: the statuses plotted
plot_validation_status(circumferences) ==
    IF DOMAIN circumferences = {} THEN [returned |-> "no data"]
    ELSE [returned |-> [name \in DOMAIN circumferences |->
                          validate_circumference(name, circumferences[name]).status]]

\* the measurement sets validated: the names of the engine, of the standards
\* and one of neither, the torso at one value and the limbs at another
TorsoNames == {"chest", "waist", "hip"}
NameSets ==
    {{}, MeasurementNames, TorsoNames, DOMAIN CIRCUMFERENCE_STANDARDS,
     {"chest", "arm_bicep", "neck"}, {"biceps_left", "calf_right"}}
TorsoValues == {5200, 7500, 8000, 9600, 11000, 12000, 12500}
LimbValues == {0, 2000, 3000, 3360, 5000, 50000}
MeasurementSets ==
    {[name \in S |-> IF name \in TorsoNames THEN t ELSE l] :
        S \in NameSets, t \in TorsoValues, l \in LimbValues}

InitValidate ==
    /\ user_height_cm = 170
    /\ SessionIdle
    /\ avg_in = <<>> /\ avg_out = NoList
    /\ tri_in = <<>> /\ tri_out = NoList
    /\ circ_in = <<>> /\ circ_out = NoList
    /\ PoseIdle
    /\ val_out = <<>>
    /\ \/ /\ pc = "validate"
          /\ \E circumferences \in MeasurementSets :
             \E name \in DOMAIN circumferences :
                val_in = [circumferences |-> circumferences, name |-> name]
       \/ /\ pc = "plot"
          /\ \E circumferences \in MeasurementSets :
                val_in = [circumferences |-> circumferences]

\* one iteration of the loops at lines 169-170, 224-225 and 330-331
Validate ==
    /\ pc = "validate"
    /\ val_out' = validate_circumference(val_in.name, val_in.circumferences[val_in.name])
    /\ pc' = "validated"
    /\ UNCHANGED <<val_in, sessionState, avgVars, triVars, circVars, poseVars>>

PlotStatus ==
    /\ pc = "plot"
    /\ IF plot_circumferences_raises(val_in.circumferences)
       THEN val_out' = Raised("KeyError") /\ pc' = "raised"
       ELSE val_out' = plot_validation_status(val_in.circumferences) /\ pc' = "plotted"
    /\ UNCHANGED <<val_in, sessionState, avgVars, triVars, circVars, poseVars>>

NextValidate == Validate \/ PlotStatus

SpecValidate == InitValidate /\ [][NextValidate]_vars

(***************************************************************************)
(* assess_pose_quality on its own: no landmarks, or a body of NumLandmarks *)
(* joints with one of AbsentSets absent, the head at one of HeadXs, the    *)
(* hips below the shoulders by one of the separations on each side, and    *)
(* the visibilities of the joints of even and odd index from VisLevels     *)
(***************************************************************************)
UpTo(a, b) == a..b
AbsentSets ==
    {{}, {0}, {11}, {23}, {12, 24}, UpTo(29, 32), UpTo(28, 32), UpTo(27, 32),
     {0} \cup UpTo(27, 32), UpTo(10, 32)}
HeadXs == {50, 100, 320, 540, 541}
LeftSeparations == {-49, 49, 50, 120}
RightSeparations == {49, 120}
VisLevels == {<<70, 70>>, <<71, 71>>, <<90, 90>>, <<60, 82>>}

PoseJoint(i, head_x, left_sep, right_sep, vis) ==
    LET v == IF i % 2 = 0 THEN vis[1] ELSE vis[2]
    IN  CASE i = 0  -> Lm(head_x, 70, 0, v)
          [] i = 11 -> Lm(280, 150, 0, v)
          [] i = 12 -> Lm(360, 150, 0, v)
          [] i = 23 -> Lm(290, 150 + left_sep, 0, v)
          [] i = 24 -> Lm(350, 150 + right_sep, 0, v)
          [] OTHER  -> Lm(320, 80 + i, 0, v)

Pose(absent, head_x, left_sep, right_sep, vis) ==
    [n \in 1..NumLandmarks |->
        IF (n - 1) \in absent THEN None
        ELSE PoseJoint(n - 1, head_x, left_sep, right_sep, vis)]

Poses ==
    {NoList} \cup
    {Some(Pose(absent, head_x, left_sep, right_sep, vis)) :
        absent \in AbsentSets, head_x \in HeadXs, left_sep \in LeftSeparations,
        right_sep \in RightSeparations, vis \in VisLevels}

InitAssess ==
    /\ pc = "assess"
    /\ user_height_cm = 170
    /\ SessionIdle
    /\ avg_in = <<>> /\ avg_out = NoList
    /\ tri_in = <<>> /\ tri_out = NoList
    /\ circ_in = <<>> /\ circ_out = NoList
    /\ ValIdle
    /\ pose_in \in Poses /\ pose_out = <<>>

Assess ==
    /\ pc = "assess"
    /\ pose_out' = assess_pose_quality(pose_in)
    /\ pc' = "assessed"
    /\ UNCHANGED <<pose_in, sessionState, avgVars, triVars, circVars, valVars>>

NextAssess == Assess

SpecAssess == InitAssess /\ [][NextAssess]_vars

(***************************************************************************)
(* The functions of the core on inputs of any length: bursts whose frames  *)
(* differ in length, views that differ in length, landmark sets shorter    *)
(* than 30 entries, measurement sets with names that have no standard      *)
(***************************************************************************)
ShortPoint == Lm(8, 40, 2, 90)
ShortLists == {<<a>> : a \in {None, ShortPoint}}
                \cup {<<a, b>> : a, b \in {None, ShortPoint}}
ShortViews == {NoList} \cup {Some(l) : l \in ShortLists}
ShortBursts == {<<f>> : f \in ShortLists} \cup {<<f, g>> : f, g \in ShortLists}
ShortLengths == {0, 1, 29, 30, 33}
ShortBodies ==
    {NoList} \cup
    {Some(SubSeq(Body(20, <<0, 170, 0>>, missing), 1, n)) :
        missing \in {{}, {0}, {11}}, n \in ShortLengths}

InitCore ==
    /\ user_height_cm = 170
    /\ SessionIdle
    /\ PoseIdle
    /\ avg_out = NoList /\ tri_out = NoList /\ circ_out = NoList /\ val_out = <<>>
    /\ \/ /\ pc = "average"
          /\ avg_in \in ShortBursts
          /\ tri_in = <<>> /\ circ_in = <<>> /\ val_in = <<>>
       \/ /\ pc = "combine"
          /\ tri_in \in [front : ShortViews, left : ShortViews,
                         back : ShortViews, right : ShortViews]
          /\ avg_in = <<>> /\ circ_in = <<>> /\ val_in = <<>>
       \/ /\ pc = "measure"
          /\ circ_in \in ShortBodies
          /\ avg_in = <<>> /\ tri_in = <<>> /\ val_in = <<>>
       \/ /\ pc = "plot"
          /\ \E circumferences \in MeasurementSets :
                val_in = [circumferences |-> circumferences]
          /\ avg_in = <<>> /\ tri_in = <<>> /\ circ_in = <<>>

NextCore == Average \/ Triangulate \/ Measure \/ PlotStatus

SpecCore == InitCore /\ [][NextCore]_vars

(***************************************************************************)
(* Persistence and analysis: _save_measurements writes the record as JSON, *)
(* the functions of circumference_utils load it and read it                *)
(***************************************************************************)
\* the keys of CIRCUMFERENCE_POINTS in the order of the dictionary
MeasurementOrder ==
    <<"chest", "waist", "hip", "biceps_left", "biceps_right", "forearm_left",
      "forearm_right", "thigh_left", "thigh_right", "calf_left", "calf_right">>

\* a number of two decimals as JSON writes it: whole part and hundredths
json_number(v) == <<v \div 100, v % 100>>
json_parse_number(t) == t[1] * 100 + t[2]

\* the value of member k of a JSON object
Member(t, k) == t[CHOOSE i \in 1..Len(t) : t[i][1] = k][2]
Members(t) == {t[i][1] : i \in 1..Len(t)}

\* json.dump of the measurements: the members in the order of the dictionary
json_dump_object(m) ==
    LET names == SelectSeq(MeasurementOrder, LAMBDA n : n \in DOMAIN m)
    IN  [i \in 1..Len(names) |-> <<names[i], json_number(m[names[i]])>>]

json_load_object(t) == [name \in Members(t) |-> json_parse_number(Member(t, name))]

\* lines 472-473: json.dump(output_data, f)
json_dump(output_data) ==
    <<<<"timestamp", output_data.timestamp>>,
      <<"user_height_cm", json_number(output_data.user_height_cm * 100)>>,
      <<"measurements", json_dump_object(output_data.measurements)>>,
      <<"capture_type", output_data.capture_type>>>>

\* load_circumference_data, lines 27-31: json.load(f)
json_load(t) ==
    [k \in Members(t) |->
        CASE k = "measurements"   -> json_load_object(Member(t, k))
          [] k = "user_height_cm" -> json_parse_number(Member(t, k)) \div 100
          [] OTHER                -> Member(t, k)]

\* data.get(key, default)
DataGet(data, key, default) == IF key \in DOMAIN data THEN data[key] ELSE default

\* lines 142, 206, 277, 324: the mapping the analysis functions read
Circumferences(data) == DataGet(data, "circumferences", EmptyDict)

\* export_to_csv, lines 273-286: the rows after the header
export_to_csv(data) ==
    LET circumferences == Circumferences(data)
    IN  [name \in DOMAIN circumferences |-> circumferences[name]]

\* generate_report, lines 225-230: the lines of the measurements
generate_report(data) ==
    LET circumferences == Circumferences(data)
    IN  [name \in DOMAIN circumferences |->
            LET validation == validate_circumference(name, circumferences[name])
            IN  [value |-> circumferences[name],
                 status_symbol |-> validation.valid,
                 status_text |-> DataGet(validation, "status", "unknown")]]

\* quick_circumference_analysis, lines 321-333: the lines printed
quick_circumference_analysis(data) ==
    LET circumferences == Circumferences(data)
    IN  [name \in DOMAIN circumferences |->
            LET validation == validate_circumference(name, circumferences[name])
            IN  [value |-> circumferences[name],
                 status |-> validation.valid,
                 message |-> validation.message]]

\* compare_circumferences, lines 69-102
compare_circumferences(current, previous) ==
    LET cur == Circumferences(current)
        prev == Circumferences(previous)
        names == SelectSeq(MeasurementOrder,
                           LAMBDA n : n \in DOMAIN cur /\ n \in DOMAIN prev)
        change(n) == cur[n] - prev[n]
        results ==
            [i \in 1..Len(names) |->
                [measurement |-> names[i],
                 previous |-> prev[names[i]],
                 current |-> cur[names[i]],
                 change |-> change(names[i]),
                 change_percent |->
                    IF prev[names[i]] # 0
                    THEN Round2(Rat(change(names[i]) * 100, prev[names[i]]))
                    ELSE 0]]
    IN  [stable |-> SelectSeq(results, LAMBDA r : Abs(r.change) < 100),
         improvements |-> SelectSeq(results, LAMBDA r : Abs(r.change) >= 100 /\ r.change < 0),
         deterioration |-> SelectSeq(results, LAMBDA r : Abs(r.change) >= 100 /\ r.change >= 0)]

\* the measurements a session can hold when it saves: some or all of the
\* names of the engine, not empty (line 447)
SavedNameSets == {MeasurementNames, TorsoNames, {"biceps_left", "calf_right"}}
SavedMeasurements ==
    {[name \in S |-> IF name \in TorsoNames THEN t ELSE l] :
        S \in SavedNameSets, t \in TorsoValues, l \in LimbValues}

InitAnalyze ==
    /\ pc = "save"
    /\ user_height_cm \in Heights
    /\ view_idx = 1
    /\ frame_count = 0
    /\ valid_landmarks_list = <<>>
    /\ pose_stable_count = 0
    /\ auto_capture_started = FALSE
    /\ capture_complete = FALSE
    /\ view_result = NoReturn
    /\ landmarks_dict = EmptyDict
    /\ measurements \in {Some(m) : m \in SavedMeasurements}
    /\ saved = <<>>
    /\ result = "none"
    /\ obs = FreshObs(0, 0)
    /\ PureIdle

analyzeRest ==
    <<user_height_cm, view_idx, frame_count, valid_landmarks_list, pose_stable_count,
      auto_capture_started, capture_complete, view_result, landmarks_dict,
      measurements, result, obs>>

\* _save_measurements, lines 460-478
SaveMeasurements ==
    /\ pc = "save"
    /\ saved' = Append(saved, SavedRecord(user_height_cm, measurements))
    /\ pc' = "saved"
    /\ UNCHANGED analyzeRest
    /\ UNCHANGED pureVars

\* load_circumference_data on the file just written
LoadData ==
    /\ pc = "saved"
    /\ val_in' = [data |-> json_load(json_dump(saved[Len(saved)]))]
    /\ pc' = "loaded"
    /\ UNCHANGED <<analyzeRest, saved, val_out, avgVars, triVars, circVars, poseVars>>

\* the analysis functions on the loaded data, the comparison with itself
Analyze ==
    /\ pc = "loaded"
    /\ val_out' = [csv |-> export_to_csv(val_in.data),
                   report |-> generate_report(val_in.data),
                   quick |-> quick_circumference_analysis(val_in.data),
                   comparison |-> compare_circumferences(val_in.data, val_in.data)]
    /\ pc' = "analyzed"
    /\ UNCHANGED <<analyzeRest, saved, val_in, avgVars, triVars, circVars, poseVars>>

NextAnalyze == SaveMeasurements \/ LoadData \/ Analyze

SpecAnalyze == InitAnalyze /\ [][NextAnalyze]_vars

(***************************************************************************)
(* Properties of the capture loop and of the session                       *)
(***************************************************************************)
InLoop == pc = "loop"
Returned == pc = "returned"
Done == pc = "done"

\* C1: an invalid frame that arrives while a burst is being captured leaves
\* the buffer empty, frame_count 0, the stable count 0 and capturing off (a
\* call it ends hands nothing to the averager), and no frame accepted before
\* an invalid frame is in the buffer or in the burst returned afterwards.
C1_InvalidFrameDiscardsBurst ==
    /\ (InLoop /\ obs.read /\ ~obs.valid /\ obs.was_capturing)
          => /\ valid_landmarks_list = <<>>
             /\ frame_count = 0
             /\ pose_stable_count = 0
             /\ ~auto_capture_started
    /\ (Returned /\ obs.read /\ ~obs.valid)
          => view_result.burst = <<>> /\ ~view_result.success /\ obs.averaged = 0
    /\ obs.stale = 0

\* a burst with accepted frames was being captured when an invalid frame arrived
C1_Witness ==
    InLoop /\ obs.read /\ ~obs.valid /\ obs.was_capturing /\ obs.had_burst

\* C2: capturing is on exactly while the frames read last are at least
\* pose_stable_threshold valid frames in a row; after ScenarioFirstRun valid
\* frames and one invalid frame it is entered exactly on the
\* pose_stable_threshold-th valid frame of the second run.
C2_CapturingNeedsStableRun ==
    InLoop =>
        /\ auto_capture_started <=> obs.run_len >= pose_stable_threshold
        /\ obs.scen >= 0
              => (auto_capture_started
                    <=> obs.scen >= ScenarioFirstRun + 1 + pose_stable_threshold)

\* the scenario: capturing has just been entered by the second run
C2_Witness ==
    /\ InLoop /\ auto_capture_started
    /\ obs.scen = ScenarioFirstRun + 1 + pose_stable_threshold
    /\ obs.run_len = pose_stable_threshold

\* C3 as claimed: a call that returns success averaged frames_per_view frames
C3_SuccessOnlyFromFullBurst ==
    (Returned /\ view_result.success) => obs.averaged = frames_per_view

\* C3, amended: the call returns success exactly when the buffer is not empty
\* when the loop is left; the burst averaged then has frames_per_view frames
\* when the loop was left at line 250, and 1 to frames_per_view frames when it
\* was left by 's' or by the frame source ending.
C3_SuccessFromNonEmptyBurst ==
    Returned =>
        /\ view_result.success <=> obs.averaged >= 1
        /\ obs.averaged = Len(view_result.burst)
        /\ obs.averaged <= frames_per_view
        /\ obs.key = "unread" <=> obs.averaged = frames_per_view
        /\ view_result.success => obs.key \in {"unread", "s", "eof"}

\* 's' ended the call with fewer than frames_per_view frames, which were averaged
C3_Witness ==
    /\ Returned /\ view_result.success /\ obs.key = "s"
    /\ obs.averaged < frames_per_view

\* the list the iteration left: the buffer, or the burst the call returned
ListAfter == IF pc' = "loop" THEN valid_landmarks_list' ELSE view_result'.burst

\* the iteration appended one frame to the buffer
Appended ==
    /\ Len(ListAfter) = Len(valid_landmarks_list) + 1
    /\ SubSeq(ListAfter, 1, Len(valid_landmarks_list)) = valid_landmarks_list

\* an iteration of the loop that read a frame and did not end in 'q'
FrameStep == InLoop /\ obs'.key \in {"other", "s", "unread"}

\* C4: while capturing a frame is appended to the buffer if and only if all its
\* joints are present; a valid frame with a missing joint leaves the buffer
\* and frame_count unchanged, does not reset the stable count and does not
\* end capturing.
C4_OnlyCompleteFramesAccepted ==
    [][FrameStep =>
        /\ Appended <=> (obs'.capturing /\ obs'.full)
        /\ (obs'.valid /\ ~obs'.full)
              => /\ ListAfter = valid_landmarks_list
                 /\ auto_capture_started => obs'.capturing
                 /\ pc' = "loop"
                       => /\ frame_count' = frame_count
                          /\ pose_stable_count' = pose_stable_count + 1
                          /\ auto_capture_started' =
                                (auto_capture_started
                                   \/ pose_stable_count' >= pose_stable_threshold)]_vars

\* a valid frame with missing joints was read during a burst and skipped
C4_Witness ==
    /\ InLoop /\ auto_capture_started /\ obs.was_capturing /\ obs.had_burst
    /\ obs.valid /\ ~obs.full
    /\ frame_count > 0

\* what follows a 'q' that was read: the call has returned failure, no later
\* call of auto_capture_view is begun, nothing is saved and run_full_capture
\* returns failure
QuitHalts ==
    obs.quit_view # 0 =>
        /\ pc \in {"returned", "done"}
        /\ ~view_result.success
        /\ capture_complete
        /\ view_idx = obs.quit_view /\ obs.calls = obs.quit_view
        /\ saved = <<>>
        /\ result # "success"
        /\ Done => result = "failure"

\* C5 as claimed: the key is read after every frame read, and a 'q' that is
\* read halts the session
C5_QuitCheckedEveryFrame ==
    /\ QuitHalts
    /\ obs.read => obs.key # "unread"

\* C5, amended: the key is read after every frame read except the frame that
\* completes a burst of frames_per_view frames (line 250 leaves the loop before
\* line 274); once 'q' has been read in a view, that call has returned failure,
\* no later call of auto_capture_view is begun, nothing is saved and
\* run_full_capture returns failure.
C5_QuitHaltsSession ==
    /\ QuitHalts
    /\ (InLoop /\ obs.read) => obs.key = "other"
    /\ (obs.read /\ obs.key = "unread")
          => ~InLoop /\ obs.full /\ obs.averaged = frames_per_view
    /\ capture_complete <=> obs.quit_view # 0

\* 'q' was read in the third view, after two views had been captured
C5_Witness ==
    /\ Done /\ obs.quit_view = 3 /\ result = "failure"
    /\ DOMAIN landmarks_dict = {"front", "left"}

\* C6 as claimed: the loop is not running once no valid pose has been seen for
\* AUTO_CAPTURE_TIMEOUT seconds
C6_TimeoutAborts ==
    InLoop => obs.idle_s < AUTO_CAPTURE_TIMEOUT

\* C7: a record is saved and success returned only when all four calls of
\* auto_capture_view returned success and the measurements are not empty;
\* otherwise run_full_capture returns failure and nothing is saved.
C7_SavedOnlyOnFullSuccess ==
    /\ (saved # <<>> \/ result = "success")
          => /\ Done /\ result = "success"
             /\ obs.calls = Len(views) /\ DOMAIN landmarks_dict = ViewNames
             /\ \A v \in ViewNames : Truthy(landmarks_dict[v])
             /\ Truthy(measurements)
             /\ Len(saved) = 1 /\ saved[1].measurements = Get(measurements)
    /\ Done => result \in {"success", "failure"}
    /\ (Done /\ DOMAIN landmarks_dict # ViewNames) => result = "failure" /\ saved = <<>>

\* the session succeeded and saved its record
C7_Witness ==
    /\ Done /\ result = "success" /\ Len(saved) = 1
    /\ DOMAIN saved[1].measurements = MeasurementNames

(***************************************************************************)
(* Properties of _average_landmarks                                        *)
(***************************************************************************)
Coordinates == {"x", "y", "z", "visibility"}

\* the frames of the burst in which joint idx is present
FramesWith(burst, idx) == {f \in 1..Len(burst) : Present(At(burst[f], idx))}

\* the sum of coordinate c of joint idx over the frames F of the burst (the
\* coordinates of the model's points are whole numbers)
RECURSIVE SumOver(_, _, _, _)
SumOver(burst, idx, c, F) ==
    IF F = {} THEN 0
    ELSE LET f == CHOOSE g \in F : TRUE
         IN  At(burst[f], idx)[c].n + SumOver(burst, idx, c, F \ {f})

\* C8: of a non-empty burst of equal-length landmark sets the average has the
\* length of the frames; a joint absent in every frame is absent in it, and a
\* joint present in exactly k of the frames has x, y, z and visibility equal
\* to the sum over those k frames divided by k.
C8_AverageOverPresentFrames ==
    (pc = "averaged" /\ avg_in # <<>>) =>
        /\ avg_out # NoList
        /\ Len(Get(avg_out)) = Len(avg_in[1])
        /\ \A idx \in 0..(Len(avg_in[1]) - 1) :
              LET F == FramesWith(avg_in, idx)
                  k == Cardinality(F)
                  p == At(Get(avg_out), idx)
              IN  IF k = 0 THEN p = None
                  ELSE /\ p # None
                       /\ DOMAIN p = Coordinates
                       /\ \A c \in Coordinates :
                             p[c] = Rat(SumOver(avg_in, idx, c, F), k)

\* a burst of three frames was averaged in which one joint is present in two
\* frames with different values and the other joint in none
C8_Witness ==
    /\ pc = "averaged" /\ Len(avg_in) = 3
    /\ Cardinality(FramesWith(avg_in, 0)) = 2
    /\ \E f, g \in FramesWith(avg_in, 0) : At(avg_in[f], 0) # At(avg_in[g], 0)
    /\ FramesWith(avg_in, 1) = {}
    /\ At(Get(avg_out), 0).x = Rat(5, 2)
    /\ At(Get(avg_out), 1) = None

(***************************************************************************)
(* Properties of triangulate_4view                                         *)
(***************************************************************************)
TriInputs == <<tri_in.front, tri_in.left, tri_in.back, tri_in.right>>

\* the view is missing: None, or a list without entries
Missing(view) == view = NoList \/ Get(view) = <<>>

\* the views in which joint idx is present
ViewsWith(idx) == {v \in 1..4 : Present(At(Get(TriInputs[v]), idx))}

\* C9: triangulate_4view returns no result when one of the four views is
\* missing; otherwise the result has a joint exactly where all four views
\* have it, with x, y and z a quarter of the sum over the four views and no
\* visibility, so a joint present in three views only is absent.
C9_JointNeedsAllFourViews ==
    pc = "combined" =>
        IF \E v \in 1..4 : Missing(TriInputs[v])
        THEN tri_out = NoList
        ELSE /\ tri_out # NoList
             /\ Len(Get(tri_out)) = Len(Get(tri_in.front))
             /\ \A idx \in 0..(Len(Get(tri_in.front)) - 1) :
                   LET p == At(Get(tri_out), idx)
                   IN  IF ViewsWith(idx) # 1..4 THEN p = None
                       ELSE /\ p # None
                            /\ DOMAIN p = {"x", "y", "z"}
                            /\ \A c \in {"x", "y", "z"} :
                                  RMul(p[c], FromInt(4)) =
                                    FromInt(At(Get(tri_in.front), idx)[c].n
                                            + At(Get(tri_in.left), idx)[c].n
                                            + At(Get(tri_in.back), idx)[c].n
                                            + At(Get(tri_in.right), idx)[c].n)

\* four views were combined in which one joint is present in all four, not
\* with the same value, and the other joint in three
C9_Witness ==
    /\ pc = "combined"
    /\ \A v \in 1..4 : ~Missing(TriInputs[v])
    /\ ViewsWith(0) = 1..4
    /\ Cardinality(ViewsWith(1)) = 3
    /\ At(Get(tri_out), 0).x = FromInt(9)
    /\ At(Get(tri_out), 1) = None

\* a view was missing and nothing was returned
C9_MissingViewWitness ==
    /\ pc = "combined"
    /\ tri_in.left = NoList
    /\ \A v \in {1, 3, 4} : ~Missing(TriInputs[v])
    /\ tri_out = NoList

\* a joint of the front view's list that no view has
AbsentEverywhere ==
    {idx \in 0..(Len(Get(tri_in.front)) - 1) : ViewsWith(idx) = {}}

WholeDist(p, q) == CHOOSE r \in 0..400 : r * r = SqDist(p, q).n /\ SqDist(p, q).d = 1

HeadFootDist == WholeDist(At(Get(circ_in), 0), At(Get(circ_in), 29))

\* the head and the foot are present and apart
Calibrated ==
    /\ circ_in # NoList
    /\ Present(At(Get(circ_in), 0)) /\ Present(At(Get(circ_in), 29))
    /\ HeadFootDist > 0

PairPresent(name) ==
    /\ Present(At(Get(circ_in), CIRCUMFERENCE_POINTS[name].indices[1]))
    /\ Present(At(Get(circ_in), CIRCUMFERENCE_POINTS[name].indices[2]))

PairDist(name) ==
    WholeDist(At(Get(circ_in), CIRCUMFERENCE_POINTS[name].indices[1]),
              At(Get(circ_in), CIRCUMFERENCE_POINTS[name].indices[2]))

\* w * ratio * H / d
Expected(name) ==
    Rat(PairDist(name) * CIRCUMFERENCE_POINTS[name].ratio.n * user_height_cm,
        CIRCUMFERENCE_POINTS[name].ratio.d * HeadFootDist)

\* v hundredths is a nearest to two decimals
Nearest(v, a) ==
    ~RLess(FromInt(1), RMul(FromInt(2), RAbs(RSub(FromInt(v), RMul(FromInt(100), a)))))

\* C10: with the head and the foot present at distance d > 0 and the user
\* height H, a measurement is returned for exactly the pairs whose two joints
\* are present, and for a pair at distance w it is w * ratio * H / d rounded to
\* two decimals; shoulders 40 apart, d = 170 and H = 170 give chest = 52.00.
C10_CircumferenceScaledByHeight ==
    (pc = "measured" /\ Calibrated) =>
        /\ circ_out # NoList
        /\ DOMAIN Get(circ_out) = {name \in MeasurementNames : PairPresent(name)}
        /\ \A name \in DOMAIN Get(circ_out) :
              /\ Nearest(Get(circ_out)[name], Expected(name))
              /\ Get(circ_out)[name] = Round2(Expected(name))
        /\ (/\ PairPresent("chest") /\ PairDist("chest") = 40
            /\ HeadFootDist = 170 /\ user_height_cm = 170)
              => Get(circ_out)["chest"] = 5200

\* the example: shoulders 40 apart, head to foot 170, height 170, chest 52.00,
\* with a pair left out because one of its joints is absent
C10_Witness ==
    /\ pc = "measured" /\ Calibrated
    /\ PairPresent("chest") /\ PairDist("chest") = 40
    /\ HeadFootDist = 170 /\ user_height_cm = 170
    /\ Get(circ_out)["chest"] = 5200
    /\ ~PairPresent("biceps_left")
    /\ "biceps_left" \notin DOMAIN Get(circ_out)

\* the landmarks are there but the head, the foot or a distance between them
\* is not
Degraded == circ_in # NoList /\ ~Calibrated

\* w * ratio, in raw units
Unscaled(name) ==
    Rat(PairDist(name) * CIRCUMFERENCE_POINTS[name].ratio.n,
        CIRCUMFERENCE_POINTS[name].ratio.d)

\* C11: when the head or the foot is absent, or their distance is not
\* positive, the scale factor is exactly 1 and the call still returns the
\* measurements, each w * ratio rounded to two decimals.
C11_ScaleFallsBackToOne ==
    (pc = "measured" /\ Degraded) =>
        /\ scale_factor(Get(circ_in), user_height_cm) = One
        /\ circ_out # NoList
        /\ \A name \in MeasurementNames :
              PairPresent(name) =>
                 /\ name \in DOMAIN Get(circ_out)
                 /\ Get(circ_out)[name] = Round2(Unscaled(name))
                 /\ Nearest(Get(circ_out)[name], Unscaled(name))

\* the head is absent, the shoulders are 40 apart: chest is 40 * 1.30 = 52.00
\* whatever the height
C11_Witness ==
    /\ pc = "measured" /\ circ_in # NoList
    /\ ~Present(At(Get(circ_in), 0)) /\ Present(At(Get(circ_in), 29))
    /\ user_height_cm = 180
    /\ PairPresent("chest") /\ PairDist("chest") = 40
    /\ Get(circ_out)["chest"] = 5200

\* the head and the foot are present at the same place: the scale is 1 too
C11_ZeroDistanceWitness ==
    /\ pc = "measured" /\ circ_in # NoList
    /\ Present(At(Get(circ_in), 0)) /\ Present(At(Get(circ_in), 29))
    /\ HeadFootDist = 0
    /\ PairPresent("waist") /\ Get(circ_out)["waist"] = 4320

\* C12: a measurement name is a key of the result exactly when both joints of
\* its pair are present; the name of a pair with an absent joint is not a
\* key, with 0 or any other value, and the call returns a result.
C12_KeyIffPairPresent ==
    (pc = "measured" /\ circ_in # NoList) =>
        /\ circ_out # NoList
        /\ DOMAIN Get(circ_out) \subseteq MeasurementNames
        /\ \A name \in MeasurementNames :
              name \in DOMAIN Get(circ_out) <=> PairPresent(name)
        /\ \A name \in DOMAIN Get(circ_out) : Get(circ_out)[name] > 0

\* joint 13 is absent: biceps_left and forearm_left are left out, the other
\* nine measurements are returned
C12_Witness ==
    /\ pc = "measured" /\ circ_in # NoList
    /\ ~Present(At(Get(circ_in), 13))
    /\ \A i \in MaybeMissing \ {13} : Present(At(Get(circ_in), i))
    /\ DOMAIN Get(circ_out) = MeasurementNames \ {"biceps_left", "forearm_left"}

(***************************************************************************)
(* Properties of validate_circumference                                    *)
(***************************************************************************)
Validated == pc = "validated"
ValidatedValue == val_in.circumferences[val_in.name]

\* C13: for every measurement name and value the annotation returned by
\* validate_circumference carries a status (the measurement set is the
\* caller's and is left as it was).
C13_AnnotationCarriesStatus ==
    Validated =>
        /\ val_in.circumferences \in MeasurementSets
        /\ "valid" \in DOMAIN val_out
        /\ "status" \in DOMAIN val_out

\* the largest maximum of MEASUREMENT_TOLERANCE, in centimetres
LargestMax == 200

\* C14: each name the engine produces has a bound of its own in the
\* validator, and a value outside the bound (above every maximum, at least)
\* is reported as not valid.
C14_EngineNamesAreBounded ==
    (Validated /\ val_in.name \in MeasurementNames) =>
        /\ val_in.name \in DOMAIN CIRCUMFERENCE_STANDARDS
        /\ ValidatedValue > LargestMax * 100 => ~val_out.valid

(***************************************************************************)
(* Properties of assess_pose_quality                                       *)
(***************************************************************************)
Assessed == pc = "assessed" /\ pose_in # NoList

PresentJoints == {i \in 0..(Len(Get(pose_in)) - 1) : Present(At(Get(pose_in), i))}

RECURSIVE VisibilitySum(_)
VisibilitySum(J) ==
    IF J = {} THEN 0
    ELSE LET i == CHOOSE j \in J : TRUE
         IN  At(Get(pose_in), i).visibility.n + VisibilitySum(J \ {i})

\* the score is above the floor: the mean visibility of the present joints,
\* in hundredths, is above QualityFloor
ScoreAboveFloor ==
    VisibilitySum(PresentJoints) > QualityFloor * Cardinality(PresentJoints)

HeadOffCentre ==
    /\ 0 \in PresentJoints
    /\ \/ At(Get(pose_in), 0).x.n < HeadXMin
       \/ At(Get(pose_in), 0).x.n > HeadXMax

\* the shoulder and the hip are present and less than MinTorso apart in y
TorsoShort(shoulder, hip) ==
    /\ shoulder \in PresentJoints /\ hip \in PresentJoints
    /\ Abs(At(Get(pose_in), shoulder).y.n - At(Get(pose_in), hip).y.n) < MinTorso

\* C15: with fewer than min_joints_visible joints present the report is not
\* valid, its score is exactly 0 and its issues are the one issue of too few
\* joints, whatever the head and the torso are like.
C15_TooFewJointsFailsAtOnce ==
    (Assessed /\ Cardinality(PresentJoints) < min_joints_visible) =>
        /\ ~pose_out.is_valid
        /\ pose_out.quality_score = Zero
        /\ pose_out.issues = <<"Not enough joints">>

\* 27 joints are present, the head is off centre and the torso short: the
\* report has the one issue
C15_Witness ==
    /\ Assessed /\ Cardinality(PresentJoints) = min_joints_visible - 1
    /\ HeadOffCentre /\ TorsoShort(11, 23)
    /\ ScoreAboveFloor
    /\ pose_out = Report(FALSE, Zero, <<"Not enough joints">>)

\* C19 as claimed: with enough joints present the report is valid exactly
\* when the score is above the floor, the head is not off centre and the
\* torso is not short on the left nor on the right
C19_ValidIffUprightOnBothSides ==
    (Assessed /\ Cardinality(PresentJoints) >= min_joints_visible) =>
        (pose_out.is_valid <=>
            /\ ScoreAboveFloor
            /\ ~HeadOffCentre
            /\ ~TorsoShort(11, 23) /\ ~TorsoShort(12, 24))

\* C19, amended: with enough joints present the report is valid exactly when
\* the score, the mean visibility of the present joints, is above the floor,
\* the head is not present off centre and the left shoulder and hip (11 and
\* 23) are not both present less than MinTorso apart; the right side (12 and
\* 24) is not looked at.
C19_ValidIffUprightOnTheLeft ==
    (Assessed /\ Cardinality(PresentJoints) >= min_joints_visible) =>
        /\ pose_out.is_valid <=>
              (ScoreAboveFloor /\ ~HeadOffCentre /\ ~TorsoShort(11, 23))
        /\ pose_out.quality_score =
              Rat(VisibilitySum(PresentJoints), Cardinality(PresentJoints))
        /\ ("Head not centered" \in {pose_out.issues[k] : k \in DOMAIN pose_out.issues})
              <=> HeadOffCentre
        /\ ("Stand upright" \in {pose_out.issues[k] : k \in DOMAIN pose_out.issues})
              <=> TorsoShort(11, 23)

\* the torso is short on the right only and the report is valid
C19_Witness ==
    /\ Assessed /\ Cardinality(PresentJoints) >= min_joints_visible
    /\ TorsoShort(12, 24) /\ ~TorsoShort(11, 23)
    /\ 0 \in PresentJoints /\ At(Get(pose_in), 0).x.n = HeadXMax
    /\ pose_out.is_valid

(***************************************************************************)
(* The invariant of the capture loop                                       *)
(***************************************************************************)
\* C20: at the start of every iteration of the loop of auto_capture_view,
\* frame_count is the length of valid_landmarks_list and is below
\* frames_per_view, the list is non-empty only while capturing is on,
\* capturing is on only while pose_stable_count, the length of the current
\* run of valid frames, is at least the threshold, and before the first
\* frame of a view the count is 0, capturing is off and the list is empty.
C20_LoopInvariant ==
    InLoop =>
        /\ frame_count = Len(valid_landmarks_list)
        /\ frame_count < frames_per_view
        /\ valid_landmarks_list # <<>> => auto_capture_started
        /\ pose_stable_count = obs.run_len
        /\ auto_capture_started => pose_stable_count >= pose_stable_threshold
        /\ ~obs.read => CurrentLocals = FreshLocals

\* the burst is one frame short of complete
C20_Witness ==
    /\ InLoop /\ auto_capture_started
    /\ frame_count = frames_per_view - 1
    /\ Len(valid_landmarks_list) = frames_per_view - 1
    /\ pose_stable_count >= pose_stable_threshold

\* the second view starts afresh after a first view that captured a burst
C20_NextViewWitness ==
    /\ InLoop /\ view_idx = 2 /\ ~obs.read
    /\ CurrentLocals = FreshLocals

(***************************************************************************)
(* Liveness of a view capture                                              *)
(***************************************************************************)
\* the call returned success with an average over frames_per_view frames
ReturnedFullBurst ==
    /\ Returned /\ view_result.success
    /\ Len(view_result.burst) = frames_per_view
    /\ obs.averaged = frames_per_view

\* the most frames the loop can have read since the frame that reset it
LongestWait == pose_stable_threshold + frames_per_view - 1

\* C22 as claimed: once the frames have settled the call returns success
\* with frames_per_view frames, and the loop never has read LongestWait
\* frames since the last invalid frame without having returned.
C22_ReturnsAfterLastInvalidFrame ==
    /\ (InLoop /\ obs.settled) ~> ReturnedFullBurst
    /\ [](InLoop => obs.run_len < LongestWait)

\* C22, amended: once the frames have settled the call returns success with
\* frames_per_view frames, and the loop never has read LongestWait frames
\* since the last frame that was invalid or lacked a joint without having
\* returned.
C22_ReturnsAfterLastBadFrame ==
    /\ (InLoop /\ obs.settled) ~> ReturnedFullBurst
    /\ [](InLoop => obs.good_len < LongestWait)

\* the call returned on the LongestWait-th frame after an invalid one
C22_Witness ==
    /\ ReturnedFullBurst /\ obs.settled
    /\ obs.good_len = LongestWait

\* the call returned sooner: capturing was on when the frames settled
C22_EarlyWitness ==
    /\ ReturnedFullBurst /\ obs.settled
    /\ obs.good_len = frames_per_view - 1

(***************************************************************************)
(* What a session can save                                                 *)
(***************************************************************************)
\* a list with every one of the NumLandmarks joints
AllJoints(list) ==
    Len(list) = NumLandmarks /\ \A i \in 1..Len(list) : Present(list[i])

\* the 3D landmarks of the views the session has captured
SessionLandmarks3d ==
    triangulate_4view(DictGet(landmarks_dict, "front"), DictGet(landmarks_dict, "left"),
                      DictGet(landmarks_dict, "back"), DictGet(landmarks_dict, "right"))

\* C21: every frame in the buffer and in the burst a view returns has all
\* joints, so has every averaged view; and when a record is saved, the 3D
\* landmarks have all joints, the record has all 11 measurement names, and
\* the scale is the height over the head-foot distance unless that distance
\* is 0, in which case it is 1.
C21_SavedRecordHasAllMeasurements ==
    /\ \A i \in 1..Len(valid_landmarks_list) :
          AllJoints(Get(Frame[CurrentView][valid_landmarks_list[i]]))
    /\ \A i \in 1..Len(view_result.burst) :
          AllJoints(Get(Frame[CurrentView][view_result.burst[i]]))
    /\ \A v \in DOMAIN landmarks_dict :
          Truthy(landmarks_dict[v]) /\ AllJoints(Get(landmarks_dict[v]))
    /\ saved # <<>> =>
          LET l3d == Get(SessionLandmarks3d)
              scale == scale_factor(l3d, user_height_cm)
          IN  /\ AllJoints(l3d)
              /\ Cardinality(MeasurementNames) = 11
              /\ \A i \in 1..Len(saved) :
                    DOMAIN saved[i].measurements = MeasurementNames
              /\ IF SqDist(At(l3d, 0), At(l3d, 29)) = Zero
                 THEN scale = One
                 ELSE RMul(scale, Dist(At(l3d, 0), At(l3d, 29)))
                          = FromInt(user_height_cm)

\* a session saved its record after a last view cut short by 's'
C21_Witness ==
    /\ Done /\ result = "success" /\ Len(saved) = 1
    /\ Len(view_result.burst) \in 1..(frames_per_view - 1)
    /\ DOMAIN saved[1].measurements = MeasurementNames
    /\ AllJoints(Get(SessionLandmarks3d))

(***************************************************************************)
(* Properties of the saved result                                          *)
(***************************************************************************)
\* a landmark list whose head and foot are present and apart
ScaledToCm(landmarks_3d) ==
    /\ landmarks_3d # NoList
    /\ Present(At(Get(landmarks_3d), 0)) /\ Present(At(Get(landmarks_3d), 29))
    /\ SqDist(At(Get(landmarks_3d), 0), At(Get(landmarks_3d), 29)) # Zero

\* the record _save_measurements writes for the measurements just returned
RecordOfResult == SavedRecord(user_height_cm, circ_out)

\* C17: the record saved for measurements computed without the head or the
\* foot is told apart from every record of measurements scaled to
\* centimetres: no list with head and foot present and apart gives, for the
\* same height, the same record.
C17_DegradedResultIsTagged ==
    (pc = "measured" /\ Degraded /\ Truthy(circ_out)) =>
        \A b \in Bodies :
            ScaledToCm(b) =>
                SavedRecord(user_height_cm,
                            calculate_circumference_only(b, user_height_cm))
                    # RecordOfResult

(***************************************************************************)
(* Properties of the analysis of a saved record                            *)
(***************************************************************************)
\* the mapping _save_measurements wrote
Written == saved[Len(saved)].measurements

\* the names compare_circumferences has a result for
Compared ==
    LET c == val_out.comparison
    IN  {c.stable[i].measurement : i \in 1..Len(c.stable)}
            \cup {c.improvements[i].measurement : i \in 1..Len(c.improvements)}
            \cup {c.deterioration[i].measurement : i \in 1..Len(c.deterioration)}

\* C23: the record loaded from the file is the record written, and
\* export_to_csv, generate_report, quick_circumference_analysis and
\* compare_circumferences process exactly the names that were saved, each
\* with the value that was saved.
C23_AnalysisReadsWhatWasSaved ==
    pc = "analyzed" =>
        /\ DOMAIN val_in.data = DOMAIN saved[Len(saved)]
        /\ DOMAIN val_in.data.measurements = DOMAIN Written
        /\ \A name \in DOMAIN Written : val_in.data.measurements[name] = Written[name]
        /\ DOMAIN val_out.csv = DOMAIN Written
        /\ DOMAIN val_out.report = DOMAIN Written
        /\ DOMAIN val_out.quick = DOMAIN Written
        /\ Compared = DOMAIN Written
        /\ \A name \in DOMAIN Written :
              /\ val_out.csv[name] = Written[name]
              /\ val_out.report[name].value = Written[name]
              /\ val_out.quick[name].value = Written[name]

(***************************************************************************)
(* Properties of the core as a whole                                       *)
(***************************************************************************)
\* C16: no call of _average_landmarks, triangulate_4view,
\* calculate_circumference_only or of the status loop of plot_circumferences
\* ends in an exception, whatever the lengths of its lists and the names of
\* its measurements.
C16_NothingRaises == pc # "raised"

====
